---------------------------- MODULE Spec2Model ----------------------------
(***************************************************************************)
(* Comment controller of the blog API (src/controllers/comment.ts).        *)
(*                                                                         *)
(* The store is the comments collection: a sequence of documents whose     *)
(* index is the document's _id.  ObjectIds are integers; user ids, post    *)
(* ids and comment ids come from pairwise disjoint ranges, as the ids of   *)
(* three collections do.  The null document / absent reference is 0.       *)
(* Every handler sends exactly one response; res is the last one sent.     *)
(***************************************************************************)
EXTENDS Integers, Sequences, FiniteSets, TLC

VARIABLES comments, res, inflight

vars == <<comments, res, inflight>>

---------------------------------------------------------------------------
(* Bounds of the model *)

MaxComments == 2
MaxReactComments == 1
MaxInflight == 2

\* the callers (A1, A2) and the posts (P1, P2) of the requests
Users == {101, 102}
Posts == {201, 202}
CommentIds == 1..MaxComments

Null == 0

---------------------------------------------------------------------------
(* Array helpers *)

Range(s) == {s[i] : i \in 1..Len(s)}

RECURSIVE Without(_, _)
Without(s, x) ==
  IF s = <<>> THEN <<>>
  ELSE IF Head(s) = x THEN Without(Tail(s), x)
       ELSE <<Head(s)>> \o Without(Tail(s), x)

\* Utility.arrayToSet: a Set keeps the first occurrence of each element, in
\* insertion order; Array.from gives that order back.
RECURSIVE arrayToSet(_)
arrayToSet(s) ==
  IF s = <<>> THEN <<>>
  ELSE <<Head(s)>> \o arrayToSet(Without(Tail(s), Head(s)))

\* set.delete(x) followed by `size > 0 ? Array.from(set) : []`
setDelete(s, x) == Without(arrayToSet(s), x)

RECURSIVE Filter(_, _)
Filter(s, keep) ==
  IF s = <<>> THEN <<>>
  ELSE IF Head(s) \in keep THEN <<Head(s)>> \o Filter(Tail(s), keep)
       ELSE Filter(Tail(s), keep)

---------------------------------------------------------------------------
(* Request bodies: req.body is used raw (not matchedData), so besides the  *)
(* validated content fields it may carry any other field of the document.  *)

Has(b, f) == f \in DOMAIN b
Field(b, f, default) == IF Has(b, f) THEN b[f] ELSE default

\* The second body of each set also names caller A2 as the comment's user.
CreateBodies == {[body |-> "a"], [body |-> "a", user |-> 102]}

UpdateBodies ==
  {[body |-> "b", tldr |-> "t"], [body |-> "b", tldr |-> "t", user |-> 102]}

\* req.body of createReply naming the reply's post or parent itself; the
\* route runs no body validator
RawReplyBodies ==
  {[body |-> "a"]}
    \cup {[body |-> "a", post |-> q] : q \in Posts}
    \cup {[body |-> "a", parentComment |-> d] : d \in CommentIds}

---------------------------------------------------------------------------
(* Documents *)

\* CommentModel.create({user, post, [parentComment,] ...req.body}): the
\* body's fields are spread last and win over the handler's.
NewComment(currUserId, postId, parentId, b) ==
  [ user |-> Field(b, "user", currUserId),
    post |-> Field(b, "post", postId),
    parentComment |-> Field(b, "parentComment", parentId),
    body |-> Field(b, "body", ""),
    tldr |-> Field(b, "tldr", ""),
    childComments |-> <<>>,
    detachedchildComments |-> <<>>,
    likes |-> <<>>,
    dislikes |-> <<>>,
    deleted |-> FALSE ]

\* a response: res.status(status).json({message, ...})
Sent(status, message) == [status |-> status, message |-> message]
NotSent == Sent(0, "")

\* CommentModel.findOne({_id}) without the post filter
findOneById(cs, commentId, postId) ==
  IF commentId \in 1..Len(cs) THEN commentId ELSE Null

\* CommentModel.findOne({_id, post}): the id of the match, or Null
findOne(cs, commentId, postId) ==
  IF commentId \in 1..Len(cs) /\ cs[commentId].post = postId
  THEN commentId ELSE Null


\* validateCommentFromDb without its `comment.deleted` branch
validateIgnoresDeleted(cs, found) ==
  IF found = Null THEN Sent(404, "comment not found") ELSE NotSent

\* the response validateCommentFromDb sends; NotSent when the comment is valid
validateCommentFromDb(cs, found) ==
  IF found = Null THEN Sent(404, "comment not found")
  ELSE IF cs[found].deleted THEN Sent(400, "comment already deleted")
  ELSE NotSent

\* [doc, sent]: doc = Null when a response was sent
findCommentByIdAndPostId(cs, commentId, postId) ==
  LET found == findOne(cs, commentId, postId)
      sent == validateCommentFromDb(cs, found)
  IN [doc |-> IF sent = NotSent THEN found ELSE Null, sent |-> sent]

findParentComment(cs, commentId, postId) ==
  findCommentByIdAndPostId(cs, commentId, postId)


\* isCurrUserSameAsCreator that lets every caller through
anyUserIsCreator(currUserId, dbUserId) == TRUE

\* FALSE when the 403 is sent
isCurrUserSameAsCreator(currUserId, dbUserId) == currUserId = dbUserId

Forbidden == Sent(403, "you are not the author")


\* markCommentAsDeleted without `storedComment.childComments = []`
markKeepsChildren(doc) ==
  [doc EXCEPT !.deleted = TRUE,
              !.detachedchildComments = doc.childComments,
              !.tldr = "",
              !.body = ""]

\* markCommentAsDeleted that empties childComments before copying it
markClearsBeforeCopy(doc) ==
  [doc EXCEPT !.deleted = TRUE,
              !.detachedchildComments = <<>>,
              !.childComments = <<>>,
              !.tldr = "",
              !.body = ""]

markCommentAsDeleted(doc) ==
  [doc EXCEPT !.deleted = TRUE,
              !.detachedchildComments = doc.childComments,
              !.childComments = <<>>,
              !.tldr = "",
              !.body = ""]

\* Utility.updateDoc(doc, req.body): merges the body into the document and
\* saves it
updateDoc(doc, b) ==
  [f \in DOMAIN doc |-> IF Has(b, f) THEN b[f] ELSE doc[f]]

\* Utility.updateUserReactions(req, res, reactions): adds the caller to the
\* array in place, or sends the rejection and returns null when already there
updateUserReactions(reactions, userId) ==
  IF userId \in Range(reactions)
  THEN [ok |-> FALSE, reactions |-> reactions]
  ELSE [ok |-> TRUE, reactions |-> Append(reactions, userId)]

AlreadyReacted == Sent(400, "already reacted")

\* document.save() of a document read from the store
save(cs, id, doc) == [cs EXCEPT ![id] = doc]

---------------------------------------------------------------------------
(* Responses: the handler that answered, what it sent, the id of the       *)
(* comment in the payload (Null when none) and the replies listed.         *)

Response(op, sent, comment) ==
  [op |-> op, status |-> sent.status, message |-> sent.message,
   comment |-> comment, replies |-> <<>>]

Init ==
  /\ comments = <<>>
  /\ res = Response("none", NotSent, Null)
  /\ inflight = {}

---------------------------------------------------------------------------
(* createComment, updateComment, deleteComment *)

createComment(u, p, b) ==
  /\ Len(comments) < MaxComments
  /\ comments' = Append(comments, NewComment(u, p, Null, b))
  /\ res' = Response("createComment", Sent(201, "comment created successfully"),
                     Len(comments) + 1)
  /\ UNCHANGED inflight

\* [sent, doc] of updateComment once the comment is found
updateCommentOutcome(doc, u, b) ==
  IF ~isCurrUserSameAsCreator(u, doc.user)
  THEN [sent |-> Forbidden, doc |-> doc]
  ELSE [sent |-> Sent(200, "post comment updated successfully"),
        doc |-> updateDoc(doc, b)]

updateComment(u, p, c, b) ==
  LET f == findCommentByIdAndPostId(comments, c, p) IN
  /\ IF f.doc = Null
     THEN /\ res' = Response("updateComment", f.sent, Null)
          /\ UNCHANGED comments
     ELSE LET o == updateCommentOutcome(comments[f.doc], u, b) IN
          /\ res' = Response("updateComment", o.sent,
                             IF o.sent.status = 200 THEN f.doc ELSE Null)
          /\ comments' = save(comments, f.doc, o.doc)
  /\ UNCHANGED inflight

\* [sent, doc] of deleteComment once the comment is found
deleteCommentOutcome(doc, u) ==
  IF ~isCurrUserSameAsCreator(u, doc.user)
  THEN [sent |-> Forbidden, doc |-> doc]
  ELSE [sent |-> Sent(204, ""), doc |-> markCommentAsDeleted(doc)]

deleteComment(u, p, c) ==
  LET f == findCommentByIdAndPostId(comments, c, p) IN
  /\ IF f.doc = Null
     THEN /\ res' = Response("deleteComment", f.sent, Null)
          /\ UNCHANGED comments
     ELSE LET o == deleteCommentOutcome(comments[f.doc], u) IN
          /\ res' = Response("deleteComment", o.sent, Null)
          /\ comments' = save(comments, f.doc, o.doc)
  /\ UNCHANGED inflight

---------------------------------------------------------------------------
(* Reads of one comment *)

\* getCommentById: resolve (postId, id), answer 200 with the comment
getCommentById(p, c) ==
  LET f == findCommentByIdAndPostId(comments, c, p) IN
  /\ IF f.doc = Null
     THEN res' = Response("getCommentById", f.sent, Null)
     ELSE res' = Response("getCommentById",
                          Sent(200, "comment retrieved successfully"), f.doc)
  /\ UNCHANGED <<comments, inflight>>

\* the ids 1..n of the comments of cs stored under postId, in order
idsOfPost(cs, postId, n) ==
  Filter([i \in 1..n |-> i], {i \in 1..Len(cs) : cs[i].post = postId})

\* findCommentsForPost without the filter on `deleted`
findCommentsUnfiltered(cs, postId) ==
  LET storedComments == idsOfPost(cs, postId, Len(cs)) IN
  IF Len(storedComments) <= 0
  THEN [sent |-> Sent(200, "No comments available for post"), list |-> <<>>]
  ELSE [sent |-> NotSent, list |-> storedComments]

\* [sent, list] of findCommentsForPost: CommentModel.find({post}); with no
\* match it answers 200 itself and returns null, else it returns the
\* comments that are not deleted
findCommentsForPost(cs, postId) ==
  LET storedComments == idsOfPost(cs, postId, Len(cs)) IN
  IF Len(storedComments) <= 0
  THEN [sent |-> Sent(200, "No comments available for post"), list |-> <<>>]
  ELSE [sent |-> NotSent,
        list |-> Filter(storedComments,
                        {i \in 1..Len(cs) : ~cs[i].deleted})]

\* getComments: answer 200 with what findCommentsForPost returned (the list
\* travels in the response's list field, as the replies of findReplies do)
getComments(p) ==
  LET f == findCommentsForPost(comments, p) IN
  /\ IF f.sent # NotSent
     THEN res' = Response("getComments", f.sent, Null)
     ELSE res' = [Response("getComments",
                           Sent(200, "post comments fetched successfully"),
                           Null)
                    EXCEPT !.replies = f.list]
  /\ UNCHANGED <<comments, inflight>>

---------------------------------------------------------------------------
(* Reactions: likeComment, removeLike, dislikeComment, removeDislike *)


\* likeComment without the block that removes the caller from dislikes
likeKeepsDislike(doc, userId) ==
  LET updatedCommentLikes == updateUserReactions(doc.likes, userId) IN
  IF ~updatedCommentLikes.ok
  THEN [sent |-> AlreadyReacted, doc |-> doc]
  ELSE [sent |-> Sent(200, "comment's likes updated successfully"),
        doc |-> [doc EXCEPT !.likes = updatedCommentLikes.reactions]]

\* likeComment without `if (!updatedCommentLikes) return`: it saves and
\* answers 200 whatever updateUserReactions returned
likeIgnoresRejection(doc, userId) ==
  LET updatedCommentLikes == updateUserReactions(doc.likes, userId) IN
  [sent |-> Sent(200, "comment's likes updated successfully"),
   doc |-> [doc EXCEPT
              !.likes = updatedCommentLikes.reactions,
              !.dislikes =
                IF Len(doc.dislikes) >= 1 /\ userId \in Range(doc.dislikes)
                THEN setDelete(doc.dislikes, userId)
                ELSE doc.dislikes]]

\* [sent, doc] of likeComment once the comment is found
likeCommentOutcome(doc, userId) ==
  LET updatedCommentLikes == updateUserReactions(doc.likes, userId) IN
  IF ~updatedCommentLikes.ok
  THEN [sent |-> AlreadyReacted, doc |-> doc]
  ELSE [sent |-> Sent(200, "comment's likes updated successfully"),
        doc |-> [doc EXCEPT
                   !.likes = updatedCommentLikes.reactions,
                   !.dislikes =
                     IF Len(doc.dislikes) >= 1 /\ userId \in Range(doc.dislikes)
                     THEN setDelete(doc.dislikes, userId)
                     ELSE doc.dislikes]]

\* removeLike that empties likes instead of removing the caller from it
removeLikeClearsAll(doc, userId) ==
  IF Len(doc.likes) <= 0
  THEN [sent |-> Sent(204, "there are no likes on the comment yet"), doc |-> doc]
  ELSE IF userId \notin Range(doc.likes)
  THEN [sent |-> Sent(400, "user already removed like from comment"),
        doc |-> doc]
  ELSE [sent |-> Sent(200, "comment like removed successfully!"),
        doc |-> [doc EXCEPT !.likes = <<>>]]

\* [sent, doc] of removeLike once the comment is found
removeLikeOutcome(doc, userId) ==
  IF Len(doc.likes) <= 0
  THEN [sent |-> Sent(204, "there are no likes on the comment yet"), doc |-> doc]
  ELSE IF userId \notin Range(doc.likes)
  THEN [sent |-> Sent(400, "user already removed like from comment"),
        doc |-> doc]
  ELSE [sent |-> Sent(200, "comment like removed successfully!"),
        doc |-> [doc EXCEPT !.likes = setDelete(doc.likes, userId)]]


\* dislikeComment without the block that removes the caller from likes
dislikeKeepsLike(doc, userId) ==
  LET updatedCommentDislikes == updateUserReactions(doc.dislikes, userId) IN
  IF ~updatedCommentDislikes.ok
  THEN [sent |-> AlreadyReacted, doc |-> doc]
  ELSE [sent |-> Sent(200, "comment's dislikes updated successfully"),
        doc |-> [doc EXCEPT !.dislikes = updatedCommentDislikes.reactions]]

\* dislikeComment that empties likes instead of removing the caller from it
dislikeClearsLikes(doc, userId) ==
  LET updatedCommentDislikes == updateUserReactions(doc.dislikes, userId) IN
  IF ~updatedCommentDislikes.ok
  THEN [sent |-> AlreadyReacted, doc |-> doc]
  ELSE [sent |-> Sent(200, "comment's dislikes updated successfully"),
        doc |-> [doc EXCEPT
                   !.dislikes = updatedCommentDislikes.reactions,
                   !.likes = <<>>]]

\* [sent, doc] of dislikeComment once the comment is found
dislikeCommentOutcome(doc, userId) ==
  LET updatedCommentDislikes == updateUserReactions(doc.dislikes, userId) IN
  IF ~updatedCommentDislikes.ok
  THEN [sent |-> AlreadyReacted, doc |-> doc]
  ELSE [sent |-> Sent(200, "comment's dislikes updated successfully"),
        doc |-> [doc EXCEPT
                   !.dislikes = updatedCommentDislikes.reactions,
                   !.likes =
                     IF Len(doc.likes) > 0 /\ userId \in Range(doc.likes)
                     THEN setDelete(doc.likes, userId)
                     ELSE doc.likes]]

\* [sent, doc] of removeDislike once the comment is found
removeDislikeOutcome(doc, userId) ==
  IF Len(doc.dislikes) <= 0
  THEN [sent |-> Sent(204, "there are no dislikes on the comment yet"),
        doc |-> doc]
  ELSE IF userId \notin Range(doc.dislikes)
  THEN [sent |-> Sent(400, "user already removed dislike from comment"),
        doc |-> doc]
  ELSE [sent |-> Sent(200, "comment dislike removed successfully!"),
        doc |-> [doc EXCEPT !.dislikes = setDelete(doc.dislikes, userId)]]

\* the four handlers share their shape: look the comment up, apply the
\* outcome, save, answer with the comment on success
likeComment(u, p, c) ==
  LET f == findCommentByIdAndPostId(comments, c, p) IN
  /\ IF f.doc = Null
     THEN /\ res' = Response("likeComment", f.sent, Null)
          /\ UNCHANGED comments
     ELSE LET o == likeCommentOutcome(comments[f.doc], u) IN
          /\ res' = Response("likeComment", o.sent,
                             IF o.sent.status = 200 THEN f.doc ELSE Null)
          /\ comments' = save(comments, f.doc, o.doc)
  /\ UNCHANGED inflight

removeLike(u, p, c) ==
  LET f == findCommentByIdAndPostId(comments, c, p) IN
  /\ IF f.doc = Null
     THEN /\ res' = Response("removeLike", f.sent, Null)
          /\ UNCHANGED comments
     ELSE LET o == removeLikeOutcome(comments[f.doc], u) IN
          /\ res' = Response("removeLike", o.sent,
                             IF o.sent.status = 200 THEN f.doc ELSE Null)
          /\ comments' = save(comments, f.doc, o.doc)
  /\ UNCHANGED inflight

dislikeComment(u, p, c) ==
  LET f == findCommentByIdAndPostId(comments, c, p) IN
  /\ IF f.doc = Null
     THEN /\ res' = Response("dislikeComment", f.sent, Null)
          /\ UNCHANGED comments
     ELSE LET o == dislikeCommentOutcome(comments[f.doc], u) IN
          /\ res' = Response("dislikeComment", o.sent,
                             IF o.sent.status = 200 THEN f.doc ELSE Null)
          /\ comments' = save(comments, f.doc, o.doc)
  /\ UNCHANGED inflight

removeDislike(u, p, c) ==
  LET f == findCommentByIdAndPostId(comments, c, p) IN
  /\ IF f.doc = Null
     THEN /\ res' = Response("removeDislike", f.sent, Null)
          /\ UNCHANGED comments
     ELSE LET o == removeDislikeOutcome(comments[f.doc], u) IN
          /\ res' = Response("removeDislike", o.sent,
                             IF o.sent.status = 200 THEN f.doc ELSE Null)
          /\ comments' = save(comments, f.doc, o.doc)
  /\ UNCHANGED inflight

---------------------------------------------------------------------------
(* Replies: findReplies, createReply, deleteReply *)


\* the parent lookup by findOne alone: only a missing parent is refused
parentSentIfMissing(cs, commentId, postId) ==
  IF findOne(cs, commentId, postId) = Null
  THEN Sent(404, "comment not found")
  ELSE NotSent

\* the parent lookup shared by the three reply handlers: findParentComment,
\* then the handler's own `parentComment.deleted` test; NotSent when the
\* handler goes on
parentSent(cs, commentId, postId) ==
  LET f == findParentComment(cs, commentId, postId) IN
  IF f.doc = Null THEN f.sent
  ELSE IF cs[f.doc].deleted THEN Sent(400, "parent comment is already deleted")
  ELSE NotSent

\* parentComment.populate("childComments"): the referenced documents that
\* exist, in the array's order
populate(cs, childComments) == Filter(childComments, 1..Len(cs))

\* [sent, replies] of findReplies once the parent passed the checks
findRepliesOutcome(cs, parent) ==
  LET replies == populate(cs, cs[parent].childComments) IN
  IF Len(replies) <= 0
  THEN [sent |-> Sent(404, "no replies added for comment"), replies |-> <<>>]
  ELSE [sent |-> Sent(200, "replies retrieved successfully"),
        replies |-> Filter(replies, {i \in 1..Len(cs) : ~cs[i].deleted})]

findReplies(p, c) ==
  LET sent == parentSent(comments, c, p) IN
  /\ IF sent # NotSent
     THEN res' = Response("findReplies", sent, Null)
     ELSE LET o == findRepliesOutcome(comments, c) IN
          res' = [Response("findReplies", o.sent, Null)
                    EXCEPT !.replies = o.replies]
  /\ UNCHANGED <<comments, inflight>>

\* the reply document of createReply
replyCommentData(currUserId, postId, parentId, b) ==
  NewComment(currUserId, postId, parentId, b)

\* parentComment.childComments.push(id); parentComment.save(): the save
\* writes the push as an atomic $push on the stored array
pushChild(cs, parent, child) ==
  [cs EXCEPT ![parent].childComments = Append(@, child)]

ReplyCreated == Sent(201, "reply created successfully")

\* the whole handler, run to completion
createReply(u, p, c, b) ==
  LET sent == parentSent(comments, c, p) IN
  /\ IF sent # NotSent
     THEN /\ res' = Response("createReply", sent, Null)
          /\ UNCHANGED comments
     ELSE /\ Len(comments) < MaxComments
          /\ LET newId == Len(comments) + 1
                 created == Append(comments, replyCommentData(u, p, c, b))
             IN /\ comments' = pushChild(created, c, newId)
                /\ res' = Response("createReply", ReplyCreated, newId)
  /\ UNCHANGED inflight

\* deleteReply without the `if (!userIdSet.has(replyId))` test
deleteReplySkipsMembership(cs, u, p, c, r) ==
  LET sent == parentSent(cs, c, p)
      reply == findCommentByIdAndPostId(cs, c, p)
  IN
  IF sent # NotSent THEN [sent |-> sent, comments |-> cs]
  ELSE IF reply.doc = Null THEN [sent |-> reply.sent, comments |-> cs]
  ELSE
    LET replyId == reply.doc
        deletedReply == cs[reply.doc]
        userIdSet == arrayToSet(cs[c].childComments)
        detached == save(cs, c, [cs[c] EXCEPT
                           !.childComments = Without(userIdSet, replyId)])
    IN
    IF ~isCurrUserSameAsCreator(u, replyId)
    THEN [sent |-> Forbidden, comments |-> detached]
    ELSE [sent |-> Sent(204, ""),
          comments |-> save(detached, replyId,
                            markCommentAsDeleted(deletedReply))]

\* [sent, comments] of deleteReply.  Both lookups read the request's
\* (postId, id): deletedReply is a second copy of the parent document, and
\* the request's replyId r is not read.
deleteReplyOutcome(cs, u, p, c, r) ==
  LET sent == parentSent(cs, c, p)
      reply == findCommentByIdAndPostId(cs, c, p)
  IN
  IF sent # NotSent THEN [sent |-> sent, comments |-> cs]
  ELSE IF reply.doc = Null THEN [sent |-> reply.sent, comments |-> cs]
  ELSE
    LET replyId == reply.doc
        deletedReply == cs[reply.doc]
        userIdSet == arrayToSet(cs[c].childComments)
    IN
    IF replyId \notin Range(userIdSet)
    THEN [sent |-> Sent(404, "reply not found among the comment's replies"),
          comments |-> cs]
    ELSE
      LET detached == save(cs, c, [cs[c] EXCEPT
                             !.childComments = Without(userIdSet, replyId)])
      IN
      IF ~isCurrUserSameAsCreator(u, replyId)
      THEN [sent |-> Forbidden, comments |-> detached]
      ELSE [sent |-> Sent(204, ""),
            comments |-> save(detached, replyId,
                              markCommentAsDeleted(deletedReply))]

deleteReply(u, p, c, r) ==
  LET o == deleteReplyOutcome(comments, u, p, c, r) IN
  /\ res' = Response("deleteReply", o.sent, Null)
  /\ comments' = o.comments
  /\ UNCHANGED inflight

---------------------------------------------------------------------------
(* createReply step by step: the handler yields at each await (findOne,    *)
(* create, save) and other requests run in between.  inflight holds the    *)
(* createReply requests that have not answered yet.                        *)

createReplyFind(u, p, c, b) ==
  LET sent == parentSent(comments, c, p) IN
  /\ Cardinality(inflight) < MaxInflight
  /\ IF sent # NotSent
     THEN /\ res' = Response("createReply", sent, Null)
          /\ UNCHANGED inflight
     ELSE /\ inflight' = inflight \cup
               {[user |-> u, postId |-> p, parent |-> c, b |-> b,
                 pc |-> "create", reply |-> Null]}
          /\ UNCHANGED res
  /\ UNCHANGED comments

createReplyCreate(r) ==
  /\ r.pc = "create"
  /\ Len(comments) < MaxComments
  /\ comments' = Append(comments,
                        replyCommentData(r.user, r.postId, r.parent, r.b))
  /\ inflight' = (inflight \ {r}) \cup
                   {[r EXCEPT !.pc = "save", !.reply = Len(comments) + 1]}
  /\ UNCHANGED res

createReplySave(r) ==
  /\ r.pc = "save"
  /\ comments' = pushChild(comments, r.parent, r.reply)
  /\ res' = Response("createReply", ReplyCreated, r.reply)
  /\ inflight' = inflight \ {r}

\* parentComment.save() rejects: the catch block answers 500
createReplySaveFails(r) ==
  /\ r.pc = "save"
  /\ res' = Response("createReply", Sent(500, "error creating reply to comment"),
                     Null)
  /\ inflight' = inflight \ {r}
  /\ UNCHANGED comments

---------------------------------------------------------------------------
(* likeComment and dislikeComment step by step: the handler yields at its   *)
(* two awaits, the findOne of the lookup and comment.save().  Between them  *)
(* it holds its own copy of the document; the save sends only what the      *)
(* handler changed on that copy: the caller pushed onto one array ($push on *)
(* the stored array) and, when the handler reassigned the opposite array,   *)
(* that array as a whole ($set).  A save that carries a reassigned array    *)
(* is rejected when the stored arrays are no longer the ones read (the      *)
(* document's version moved on), and the catch block answers 500.           *)

\* the arrays the document version covers
arrays(doc) ==
  <<doc.likes, doc.dislikes, doc.childComments, doc.detachedchildComments>>

\* lookup and in-memory update of likeComment / dislikeComment, up to the
\* await of comment.save()
reactFind(op, u, p, c) ==
  LET f == findCommentByIdAndPostId(comments, c, p) IN
  /\ Cardinality(inflight) < MaxInflight
  /\ IF f.doc = Null
     THEN /\ res' = Response(op, f.sent, Null)
          /\ UNCHANGED inflight
     ELSE LET o == IF op = "likeComment"
                   THEN likeCommentOutcome(comments[f.doc], u)
                   ELSE dislikeCommentOutcome(comments[f.doc], u)
          IN IF o.sent.status # 200
             THEN /\ res' = Response(op, o.sent, Null)
                  /\ UNCHANGED inflight
             ELSE /\ inflight' = inflight \cup
                       {[op |-> op, user |-> u, id |-> f.doc, pc |-> "react",
                         read |-> comments[f.doc], doc |-> o.doc]}
                  /\ UNCHANGED res
  /\ UNCHANGED comments

\* comment.save() of likeComment / dislikeComment and the answer after it
reactSave(r) ==
  LET stored == comments[r.id]
      own == IF r.op = "likeComment" THEN "likes" ELSE "dislikes"
      other == IF r.op = "likeComment" THEN "dislikes" ELSE "likes"
      reassigned == r.doc[other] # r.read[other]
  IN
  /\ r.pc = "react"
  /\ IF reassigned /\ arrays(stored) # arrays(r.read)
     THEN /\ res' = Response(r.op, Sent(500, "error saving the reaction"), Null)
          /\ UNCHANGED comments
     ELSE /\ comments' = save(comments, r.id,
                 [stored EXCEPT ![own] = Append(@, r.user),
                                ![other] = IF reassigned THEN r.doc[other]
                                           ELSE @])
          /\ res' = Response(r.op,
                 Sent(200, IF r.op = "likeComment"
                           THEN "comment's likes updated successfully"
                           ELSE "comment's dislikes updated successfully"),
                 r.id)
  /\ inflight' = inflight \ {r}

---------------------------------------------------------------------------
(* Specifications *)

Create == \E u \in Users, p \in Posts, b \in CreateBodies : createComment(u, p, b)
Update ==
  \E u \in Users, p \in Posts, c \in CommentIds, b \in UpdateBodies :
    updateComment(u, p, c, b)
Delete == \E u \in Users, p \in Posts, c \in CommentIds : deleteComment(u, p, c)
Replies == \E p \in Posts, c \in CommentIds : findReplies(p, c)
Reply ==
  \E u \in Users, p \in Posts, c \in CommentIds, b \in CreateBodies :
    createReply(u, p, c, b)
ReplyRaw ==
  \E u \in Users, p \in Posts, c \in CommentIds, b \in RawReplyBodies :
    createReply(u, p, c, b)
Unreply ==
  \E u \in Users, p \in Posts, c \in CommentIds, r \in CommentIds :
    deleteReply(u, p, c, r)
GetById == \E p \in Posts, c \in CommentIds : getCommentById(p, c)
GetAll == \E p \in Posts : getComments(p)
Like == \E u \in Users, p \in Posts, c \in CommentIds : likeComment(u, p, c)
Unlike == \E u \in Users, p \in Posts, c \in CommentIds : removeLike(u, p, c)
Dislike == \E u \in Users, p \in Posts, c \in CommentIds : dislikeComment(u, p, c)
Undislike ==
  \E u \in Users, p \in Posts, c \in CommentIds : removeDislike(u, p, c)
LikeFind ==
  \E u \in Users, p \in Posts, c \in CommentIds :
    reactFind("likeComment", u, p, c)
DislikeFind ==
  \E u \in Users, p \in Posts, c \in CommentIds :
    reactFind("dislikeComment", u, p, c)
ReactSave == \E r \in inflight : reactSave(r)
ReplyFind ==
  \E u \in Users, p \in Posts, c \in CommentIds, b \in CreateBodies :
    createReplyFind(u, p, c, b)
ReplyCreate == \E r \in inflight : createReplyCreate(r)
ReplySave == \E r \in inflight : createReplySave(r)
ReplySaveFails == \E r \in inflight : createReplySaveFails(r)

\* every handler runs to completion before the next starts
Next ==
  \/ Create \/ Update \/ Delete
  \/ Replies \/ Reply \/ Unreply
  \/ Like \/ Unlike \/ Dislike \/ Undislike
  \/ GetById \/ GetAll

Spec == Init /\ [][Next]_vars

\* the specifications without replies create fewer comments
CreateFew == Len(comments) < MaxReactComments /\ Create

\* the reaction handlers alone, on comments created before
NextReact == CreateFew \/ Like \/ Unlike \/ Dislike \/ Undislike

SpecReact == Init /\ [][NextReact]_vars

\* the comment tree and its content
NextTree == Create \/ Update \/ Delete \/ Replies \/ Reply \/ Unreply

SpecTree == Init /\ [][NextTree]_vars

\* a comment's whole life without replies: content, reactions, tombstone
NextTomb ==
  \/ CreateFew \/ Update \/ Delete
  \/ Like \/ Unlike \/ Dislike \/ Undislike

SpecTomb == Init /\ [][NextTomb]_vars

\* createReply interleaved at its awaits with itself and with the handlers
\* that create and delete comments
NextAsync ==
  \/ Create \/ Delete
  \/ ReplyFind \/ ReplyCreate \/ ReplySave \/ ReplySaveFails

SpecAsync == Init /\ [][NextAsync]_vars

\* like and dislike requests on one comment, interleaved at their awaits
NextReactAsync == CreateFew \/ LikeFind \/ DislikeFind \/ ReactSave

SpecReactAsync == Init /\ [][NextReactAsync]_vars

\* the comment tree under createReply requests whose body names post or
\* parentComment
NextTreeRaw == Create \/ ReplyRaw \/ Delete \/ Unreply

SpecTreeRaw == Init /\ [][NextTreeRaw]_vars

\* the three reads, over stores built by create, reply and delete
NextRead == Create \/ Reply \/ Delete \/ GetById \/ GetAll \/ Replies

SpecRead == Init /\ [][NextRead]_vars

---------------------------------------------------------------------------
(* Properties *)

Stored == 1..Len(comments)

\* comment c is stored under post p
Exists(c, p) == findOne(comments, c, p) # Null
Live(c, p) == Exists(c, p) /\ ~comments[c].deleted
Tombstoned(c, p) == Exists(c, p) /\ comments[c].deleted

\* the step is answered by handler op
By(op) == res'.op = op

Likers(c) == Range(comments[c].likes)
Dislikers(c) == Range(comments[c].dislikes)

\* C1: after any sequence of like / dislike / unlike / undislike calls, each
\* run to completion, no caller is in both likes and dislikes of a comment.
C1_AtMostOneReaction ==
  \A c \in Stored : Likers(c) \cap Dislikers(c) = {}

\* a dislike has just succeeded on a comment that another caller likes
C1_Witness ==
  /\ res.op = "dislikeComment" /\ res.status = 200
  /\ Likers(res.comment) # {} /\ Dislikers(res.comment) # {}

\* C2: right after a comment is tombstoned, deleted is true, body and tldr
\* are empty, childComments is empty, and detachedchildComments is the
\* childComments sequence it had just before, in the same order.
C2_TombstoneEffects ==
  [][(By("deleteComment") /\ res'.status = 204) =>
       \A u \in Users, p \in Posts, c \in CommentIds :
         deleteComment(u, p, c) =>
           /\ comments'[c].deleted
           /\ comments'[c].body = ""
           /\ comments'[c].tldr = ""
           /\ comments'[c].childComments = <<>>
           /\ comments'[c].detachedchildComments = comments[c].childComments]_vars

\* a delete has just succeeded and a tombstone keeps the replies it had
C2_Witness ==
  /\ res.op = "deleteComment" /\ res.status = 204
  /\ \E c \in Stored :
       comments[c].deleted /\ comments[c].detachedchildComments # <<>>

\* C3: no state holds a reply whose id is in neither childComments nor
\* detachedchildComments of its parent (no deleteReply runs here), also
\* between the reply's creation and the parent's save, and when that save
\* fails.
C3_NoOrphanReply ==
  \A c \in Stored :
    comments[c].parentComment # Null =>
      c \in Range(comments[comments[c].parentComment].childComments)
           \cup Range(comments[comments[c].parentComment].detachedchildComments)

\* C4: deleteReply for a reply r that is among the live parent's
\* childComments, by a caller who is not r's author, answers 403, leaves r
\* not tombstoned and has removed r from the parent's childComments.
C4_DetachBeforeForbidden ==
  [][By("deleteReply") =>
       \A u \in Users, p \in Posts, c \in CommentIds, r \in CommentIds :
         ( /\ Live(c, p)
           /\ r \in Range(comments[c].childComments)
           /\ Live(r, p)
           /\ comments[r].user # u
           /\ deleteReply(u, p, c, r) ) =>
           /\ res'.status = 403
           /\ ~comments'[r].deleted
           /\ r \notin Range(comments'[c].childComments)]_vars

\* C5: a tombstoned comment stays tombstoned, and every updateComment,
\* deleteComment, likeComment, removeLike, dislikeComment and removeDislike
\* that targets it is answered 400 and changes no field of any comment.
C5_TombstoneTerminal ==
  [][/\ \A c \in Stored :
          comments[c].deleted => c <= Len(comments') /\ comments'[c].deleted
     /\ \A p \in Posts, c \in CommentIds :
          Tombstoned(c, p) =>
            \A u \in Users :
              ( \/ By("updateComment") /\ \E b \in UpdateBodies :
                                            updateComment(u, p, c, b)
                \/ By("deleteComment") /\ deleteComment(u, p, c)
                \/ By("likeComment") /\ likeComment(u, p, c)
                \/ By("removeLike") /\ removeLike(u, p, c)
                \/ By("dislikeComment") /\ dislikeComment(u, p, c)
                \/ By("removeDislike") /\ removeDislike(u, p, c) )
              => res'.status = 400 /\ comments' = comments]_vars

\* a request on a tombstoned comment that still carries a reaction has just
\* been refused
C5_Witness ==
  /\ res.op \in {"updateComment", "likeComment", "removeDislike"}
  /\ res.message = "comment already deleted"
  /\ \E c \in Stored : comments[c].deleted /\ Likers(c) \cup Dislikers(c) # {}

\* C6: updateComment or deleteComment by a caller who is not the author of
\* an existing, live comment is answered 403 and changes nothing of it.
C6_NonAuthorForbidden ==
  [][(By("updateComment") \/ By("deleteComment")) =>
       \A u \in Users, p \in Posts, c \in CommentIds :
         (Live(c, p) /\ comments[c].user # u) =>
           ( ( \/ \E b \in UpdateBodies : updateComment(u, p, c, b)
               \/ deleteComment(u, p, c) )
             => res'.status = 403 /\ comments' = comments )]_vars

\* an update has just been refused for want of authorship
C6_Witness ==
  /\ res.op = "updateComment" /\ res.status = 403
  /\ \E c \in Stored : ~comments[c].deleted /\ comments[c].body = "a"

\* C7: with a tombstoned parent, findReplies answers 400 (never 200 with a
\* list) and createReply answers 400, creates no comment and changes
\* nothing.
C7_TombstonedParentRefuses ==
  [][(By("findReplies") \/ By("createReply")) =>
       \A p \in Posts, c \in CommentIds :
         Tombstoned(c, p) =>
           /\ findReplies(p, c) => res'.status = 400
           /\ \A u \in Users, b \in CreateBodies :
                createReply(u, p, c, b) =>
                  res'.status = 400 /\ comments' = comments]_vars

\* findReplies has just been refused on a tombstoned parent that had a reply
C7_Witness ==
  /\ res.op = "findReplies" /\ res.status = 400
  /\ \E c \in Stored :
       comments[c].deleted /\ comments[c].detachedchildComments # <<>>

\* C8: likeComment by a caller who is already in the comment's likes is
\* answered 400 and leaves likes and dislikes (the whole store) as they were.
C8_SecondLikeConflict ==
  [][By("likeComment") =>
       \A u \in Users, p \in Posts, c \in CommentIds :
         (Live(c, p) /\ u \in Likers(c) /\ likeComment(u, p, c)) =>
           res'.status = 400 /\ comments' = comments]_vars

\* a like has just been refused because the caller already likes the comment
C8_Witness ==
  /\ res.op = "likeComment" /\ res.message = "already reacted"
  /\ \E c \in Stored : Likers(c) # {}

\* C9: a reaction handler run by caller u changes no other caller's
\* membership of likes or dislikes, on any comment.
C9_OtherCallersUntouched ==
  [][comments' # comments =>
       \A u \in Users, p \in Posts, c \in CommentIds :
         ( \/ By("likeComment") /\ likeComment(u, p, c)
           \/ By("removeLike") /\ removeLike(u, p, c)
           \/ By("dislikeComment") /\ dislikeComment(u, p, c)
           \/ By("removeDislike") /\ removeDislike(u, p, c) ) =>
           \A d \in Stored, y \in Users \ {u} :
             /\ (y \in Range(comments'[d].likes)) = (y \in Likers(d))
             /\ (y \in Range(comments'[d].dislikes)) = (y \in Dislikers(d))]_vars

\* caller 101 likes, then caller 102 dislikes: likes = {101}, dislikes = {102}
C9_Witness ==
  /\ res.op = "dislikeComment" /\ res.status = 200
  /\ comments[res.comment].likes = <<101>>
  /\ comments[res.comment].dislikes = <<102>>

\* C10: user, post and parentComment of a stored comment never change, ids
\* are never reassigned, and the user recorded at creation is the caller.
C10_IdentityImmutable ==
  [][/\ Len(comments') >= Len(comments)
     /\ \A c \in Stored :
          /\ comments'[c].user = comments[c].user
          /\ comments'[c].post = comments[c].post
          /\ comments'[c].parentComment = comments[c].parentComment
     /\ \A u \in Users, p \in Posts, b \in CreateBodies :
          /\ (By("createComment") /\ createComment(u, p, b)) =>
               comments'[Len(comments')].user = u
          /\ \A c \in CommentIds :
               (By("createReply") /\ createReply(u, p, c, b)
                  /\ res'.status = 201) =>
                 comments'[Len(comments')].user = u]_vars

\* C11: on a live comment, likeComment by a caller who is not in likes (whether
\* or not the caller is in dislikes) is answered 200 and, in that one step,
\* leaves the caller in likes and not in dislikes; dislikeComment by a caller
\* who is not in dislikes is answered 200 and leaves the caller in dislikes
\* and not in likes.
C11_ReactionSwap ==
  [][\A u \in Users, p \in Posts, c \in CommentIds :
       /\ (By("likeComment") /\ Live(c, p) /\ u \notin Likers(c)
             /\ likeComment(u, p, c)) =>
            /\ res'.status = 200
            /\ u \in Range(comments'[c].likes)
            /\ u \notin Range(comments'[c].dislikes)
       /\ (By("dislikeComment") /\ Live(c, p) /\ u \notin Dislikers(c)
             /\ dislikeComment(u, p, c)) =>
            /\ res'.status = 200
            /\ u \in Range(comments'[c].dislikes)
            /\ u \notin Range(comments'[c].likes)]_vars

\* a like has just succeeded on a comment that another caller dislikes
C11_Witness ==
  /\ res.op = "likeComment" /\ res.status = 200
  /\ Likers(res.comment) # {} /\ Dislikers(res.comment) # {}

Visible(ids) == Filter(ids, {i \in Stored : ~comments[i].deleted})

\* C13: findReplies on a live parent answers 200 with exactly the parent's
\* non-tombstoned children, and answers 404 whenever that filtered list is
\* empty, be it for lack of children or because every child is tombstoned.
C13_EmptyRepliesNotFound ==
  [][By("findReplies") =>
       \A p \in Posts, c \in CommentIds :
         (Live(c, p) /\ findReplies(p, c)) =>
           IF Visible(comments[c].childComments) = <<>>
           THEN res'.status = 404
           ELSE /\ res'.status = 200
                /\ res'.replies = Visible(comments[c].childComments)]_vars

\* C14: deleteReply(p, c, r) by the reply's author, with c live, r live,
\* r # c and r among c's childComments, is answered 204, removes r from c's
\* childComments and tombstones r, not c.
C14_DeleteReplySucceeds ==
  [][By("deleteReply") =>
       \A u \in Users, p \in Posts, c \in CommentIds, r \in CommentIds :
         ( /\ Live(c, p) /\ Live(r, p) /\ r # c
           /\ r \in Range(comments[c].childComments)
           /\ comments[r].user = u
           /\ deleteReply(u, p, c, r) ) =>
           /\ res'.status = 204
           /\ r \notin Range(comments'[c].childComments)
           /\ comments'[r].deleted
           /\ ~comments'[c].deleted]_vars

\* C15: deleteReply(p, c, r) with c live and r a stored, non-tombstoned
\* comment that is not among c's childComments is answered 404 and changes
\* neither c's childComments nor r (nor anything else in the store).
C15_ForeignReplyNotFound ==
  [][By("deleteReply") =>
       \A u \in Users, p \in Posts, c \in CommentIds, r \in CommentIds :
         ( /\ Live(c, p)
           /\ r \in Stored /\ ~comments[r].deleted
           /\ r \notin Range(comments[c].childComments)
           /\ deleteReply(u, p, c, r) ) =>
           /\ res'.status = 404
           /\ comments' = comments]_vars

\* deleteReply has just answered 404 while two live comments are stored on
\* the same post and neither is a child of the other
C15_Witness ==
  /\ res.op = "deleteReply" /\ res.status = 404
  /\ res.message = "reply not found among the comment's replies"
  /\ \E c, r \in Stored :
       /\ c # r /\ comments[c].post = comments[r].post
       /\ ~comments[c].deleted /\ ~comments[r].deleted
       /\ r \notin Range(comments[c].childComments)
       /\ c \notin Range(comments[r].childComments)

\* C16: getCommentById(p, c), the handler that answers with what
\* findCommentByIdAndPostId resolves, never changes the store; it answers 200
\* with comment c exactly when c is stored with post p and is not tombstoned,
\* 404 when no comment has id c and post p (c unknown, or stored under another
\* post), and 400 "comment already deleted" when the match is tombstoned.
C16_ResolveOutcomes ==
  [][By("getCommentById") =>
       \A p \in Posts, c \in CommentIds :
         getCommentById(p, c) =>
           /\ comments' = comments
           /\ IF c \in Stored /\ comments[c].post = p
              THEN IF comments[c].deleted
                   THEN /\ res'.status = 400
                        /\ res'.message = "comment already deleted"
                        /\ res'.comment = Null
                   ELSE res'.status = 200 /\ res'.comment = c
              ELSE /\ res'.status = 404
                   /\ res'.message = "comment not found"
                   /\ res'.comment = Null]_vars

\* getCommentById has just answered 404 although every comment id is stored,
\* one of them tombstoned: the id was asked for under the other post
C16_Witness ==
  /\ res.op = "getCommentById" /\ res.status = 404
  /\ Len(comments) = MaxComments
  /\ \E c \in Stored : comments[c].deleted

C18_ConcurrentReactions ==
  [][/\ \A c \in 1..Len(comments') :
          Range(comments'[c].likes) \cap Range(comments'[c].dislikes) = {}
     /\ \A r \in inflight :
          reactSave(r) =>
            \A c \in Stored, y \in Users \ {r.user} :
              /\ y \in Likers(c) => y \in Range(comments'[c].likes)
              /\ y \in Dislikers(c) => y \in Range(comments'[c].dislikes)]_vars

\* C19: with createReply interleaved with deleteComment at its awaits, every
\* stored comment with deleted = TRUE has empty body, empty tldr and empty
\* childComments: a createReply that read its parent before the tombstone
\* does not give the tombstoned parent a child by saving afterwards.
C19_TombstoneIntegrity ==
  \A c \in Stored :
    comments[c].deleted =>
      /\ comments[c].body = ""
      /\ comments[c].tldr = ""
      /\ comments[c].childComments = <<>>

\* C20: for every stored comment P and every id c in P's childComments, c is
\* a stored comment whose parentComment is P and whose post is P's post, and
\* c is in the childComments of no other comment.
C20_TreeConsistency ==
  \A P \in Stored :
    \A c \in Range(comments[P].childComments) :
      /\ c \in Stored
      /\ comments[c].parentComment = P
      /\ comments[c].post = comments[P].post
      /\ \A Q \in Stored \ {P} : c \notin Range(comments[Q].childComments)

\* C21: whatever came before, a read never returns a tombstoned comment: the
\* comment of a 200 from getCommentById, every comment listed by getComments
\* and every reply listed by findReplies is stored with deleted = FALSE, also
\* when a reply was tombstoned by deleteComment and its id is still in its
\* parent's childComments.
C21_ReadsHideTombstones ==
  [][/\ (By("getCommentById") /\ res'.status = 200) =>
          /\ res'.comment \in 1..Len(comments')
          /\ ~comments'[res'.comment].deleted
     /\ (By("getComments") \/ By("findReplies")) =>
          \A i \in Range(res'.replies) :
            i \in 1..Len(comments') /\ ~comments'[i].deleted]_vars

\* getComments has just listed a post's live comment while a reply on that
\* post, tombstoned by deleteComment, is still among its parent's
\* childComments
C21_Witness ==
  /\ res.op = "getComments" /\ res.status = 200 /\ res.replies # <<>>
  /\ \E P \in Stored, c \in Stored :
       /\ c \in Range(comments[P].childComments)
       /\ comments[c].deleted
       /\ comments[P].post \in {comments[i].post : i \in Range(res.replies)}

=============================================================================
